---- MODULE Spec2Model ----
(***************************************************************************)
(* Model of streamlit-app/app.py: the Kosovo municipality complaints        *)
(* dashboard.  One script run (app.py executed from top to bottom) is one   *)
(* atomic step; every user interaction on a widget re-runs the script.      *)
(*                                                                          *)
(* Units: severity scores are held in thousandths (7004 is 7.004), the      *)
(* values shown after rounding to two decimals in hundredths (700 is 7.00). *)
(* A timestamp is day * TicksPerDay + tick; its calendar date is the day.   *)
(* An optional value is a sequence: <<>> is "none"/NaN, <<v>> is v.         *)
(* Tables have at least one row and no missing cell.                        *)
(***************************************************************************)
EXTENDS Integers, Sequences, FiniteSets, TLC

\* ---------------------------------------------------------------- bounds
MaxRows == 2
MaxSubmissions == 2
TicksPerDay == 2

\* ------------------------------------------------------- program constants
HighSeverityThreshold == 7000
RollingWindow == 7

\* ---------------------------------------------------------------- inputs
Questions == {"q1", "q2"}
Responses == {"a1"}

FileRow(ts, cat, mun, sev) ==
    [date |-> ts, category |-> cat, municipality |-> mun, severity_score |-> sev]

SampleRows ==
    { FileRow(1 * TicksPerDay,     "roads", "Peja",    1000),
      FileRow(1 * TicksPerDay + 1, "water", "Prizren", 7000),
      FileRow(2 * TicksPerDay,     "roads", "Prizren", 7004),
      FileRow(2 * TicksPerDay + 1, "water", "Peja",    1000),
      FileRow(3 * TicksPerDay,     "roads", "Peja",    7000) }

SeqsUpTo(S, n) == UNION { [1..k -> S] : k \in 1..n }

Files == SeqsUpTo(SampleRows, MaxRows)

\* the files of the chat sessions
SessionFiles ==
    { << FileRow(1 * TicksPerDay + 1, "roads", "Peja",    1000),
         FileRow(2 * TicksPerDay,     "water", "Peja",    7004) >>,
      << FileRow(1 * TicksPerDay,     "water", "Prizren", 7000) >> }

Missing == <<>>

\* ------------------------------------------------------------ sequences
Range(s) == { s[i] : i \in 1..Len(s) }

RECURSIVE KeepWhere(_, _)
\* boolean indexing df[mask]: the rows whose mask entry is TRUE, in order
KeepWhere(rows, mask) ==
    IF rows = <<>> THEN <<>>
    ELSE IF Head(mask) THEN <<Head(rows)>> \o KeepWhere(Tail(rows), Tail(mask))
         ELSE KeepWhere(Tail(rows), Tail(mask))

RECURSIVE UniqueSeq(_)
\* Series.unique(): the distinct values in order of first appearance
UniqueSeq(s) ==
    IF s = <<>> THEN <<>>
    ELSE LET init == UniqueSeq(SubSeq(s, 1, Len(s) - 1))
             last == s[Len(s)]
         IN IF last \in Range(init) THEN init ELSE Append(init, last)

Column(rows, f) == [i \in 1..Len(rows) |-> rows[i][f]]

SetMin(S) == CHOOSE x \in S : \A y \in S : x <= y
SetMax(S) == CHOOSE x \in S : \A y \in S : x >= y

\* ------------------------------------------------------------ load_data
\* pd.read_csv gives the rows a RangeIndex 0..n-1; the date column is parsed
ReadCsv(file) ==
    [i \in 1..Len(file) |->
        [idx |-> i - 1, date |-> file[i].date, category |-> file[i].category,
         municipality |-> file[i].municipality,
         severity_score |-> file[i].severity_score]]

\* Series.dt.date
DateOf(ts) == ts \div TicksPerDay

MinDate(d) == SetMin({ DateOf(d[i].date) : i \in 1..Len(d) })
MaxDate(d) == SetMax({ DateOf(d[i].date) : i \in 1..Len(d) })

\* ------------------------------------------------------- sidebar filters
\* st.date_input: never rendered before -> the default [min, max]
DateInput(d, dr) == IF dr = <<>> THEN <<MinDate(d), MaxDate(d)>> ELSE dr

\* the values the date widget can return for table d: one date while the
\* range is being picked, or two ordered dates inside [min_value, max_value]
DateChoices(d) ==
    LET days == MinDate(d)..MaxDate(d)
    IN  { <<a>> : a \in days }
        \cup { p \in days \X days : p[1] <= p[2] }

all_categories(d) == Range(Column(d, "category"))
all_municipalities(d) == Range(Column(d, "municipality"))

\* an empty multiselect read as "no restriction"
AcceptedEmptyMeansAll(selectAll, all, selection) ==
    IF selectAll \/ selection = {} THEN all ELSE selection

\* checkbox "Select All ..." set: every observed value; unset: the multiselect
Accepted(selectAll, all, selection) == IF selectAll THEN all ELSE selection

\* ---------------------------------------------------------- apply filters
\* the end of the date range excluded
MaskExclusiveEnd(d, dr, cats, muns) ==
    [i \in 1..Len(d) |->
        /\ DateOf(d[i].date) >= dr[1]
        /\ DateOf(d[i].date) < dr[2]
        /\ d[i].category \in cats
        /\ d[i].municipality \in muns]

\* the timestamps compared without .dt.date, a date read as its midnight
MaskOnTimestamps(d, dr, cats, muns) ==
    [i \in 1..Len(d) |->
        /\ d[i].date >= dr[1] * TicksPerDay
        /\ d[i].date <= dr[2] * TicksPerDay
        /\ d[i].category \in cats
        /\ d[i].municipality \in muns]

Mask(d, dr, cats, muns) ==
    [i \in 1..Len(d) |->
        /\ DateOf(d[i].date) >= dr[1]
        /\ DateOf(d[i].date) <= dr[2]
        /\ d[i].category \in cats
        /\ d[i].municipality \in muns]

Filter(d, dr, cats, muns) == KeepWhere(d, Mask(d, dr, cats, muns))

\* ------------------------------------------------------------ aggregates
RECURSIVE SumSeverity(_)
SumSeverity(rows) ==
    IF rows = <<>> THEN 0
    ELSE Head(rows).severity_score + SumSeverity(Tail(rows))

\* round(x, 2) that rounds up
Round2Ceil(sum, n) == (sum + 10 * n - 1) \div (10 * n)

\* round(x, 2) and format(x, ".2f") of x = sum / n thousandths, in hundredths;
\* exact arithmetic, ties to even
Round2(sum, n) ==
    LET q == sum \div (10 * n)
        r == sum % (10 * n)
    IN  IF 2 * r < 10 * n THEN q
        ELSE IF 2 * r > 10 * n THEN q + 1
        ELSE IF q % 2 = 0 THEN q ELSE q + 1

\* Series.mean() as the pair <<sum, count>>; NaN on an empty series
MeanSeverity(rows) ==
    IF rows = <<>> THEN <<>> ELSE <<SumSeverity(rows), Len(rows)>>

\* an empty series averaged to 0
AvgSeverityZeroFill(rows) ==
    IF rows = <<>> THEN <<0>> ELSE <<Round2(SumSeverity(rows), Len(rows))>>

\* Series.mean() rounded to two decimals; NaN on an empty series
AvgSeverity(rows) ==
    IF rows = <<>> THEN <<>> ELSE <<Round2(SumSeverity(rows), Len(rows))>>

HighSeverity(rows) ==
    Cardinality({ i \in 1..Len(rows) :
                    rows[i].severity_score >= HighSeverityThreshold })

CountWhere(rows, f, v) == Cardinality({ i \in 1..Len(rows) : rows[i][f] = v })

\* groupby(pd.Grouper(key='date', freq='D')).size(): one bin per day from
\* the first to the last day of the rows, empty days included
DailyComplaints(rows) ==
    IF rows = <<>> THEN <<>>
    ELSE LET lo == MinDate(rows)
             hi == MaxDate(rows)
         IN [k \in 1..(hi - lo + 1) |->
               [date |-> lo + k - 1,
                count |-> Cardinality({ i \in 1..Len(rows) :
                                          DateOf(rows[i].date) = lo + k - 1 })]]

RECURSIVE SumCounts(_, _, _)
SumCounts(daily, from, to) ==
    IF from > to THEN 0 ELSE daily[from].count + SumCounts(daily, from + 1, to)

\* rolling(window=7).mean(): NaN until the window is full, then the window
\* sum (to be read as sum / 7)
RollingMean(daily) ==
    [k \in 1..Len(daily) |->
        IF k < RollingWindow THEN <<>>
        ELSE <<SumCounts(daily, k - RollingWindow + 1, k)>>]

\* Series.value_counts()
CategoryCounts(rows) ==
    [c \in all_categories(rows) |-> CountWhere(rows, "category", c)]

\* groupby('municipality').agg({'severity_score': ['mean', 'count']})
MunicipalityStats(rows) ==
    [m \in all_municipalities(rows) |->
        LET grp == KeepWhere(rows, [i \in 1..Len(rows) |-> rows[i].municipality = m])
        IN [avg_severity |-> MeanSeverity(grp),
            complaint_count |-> Len(grp)]]

Metrics(rows) ==
    [total |-> Len(rows),
     avg_severity |-> AvgSeverity(rows),
     mean_severity |-> MeanSeverity(rows),
     high_severity |-> HighSeverity(rows),
     municipalities_count |-> Cardinality(all_municipalities(rows)),
     daily_complaints |-> DailyComplaints(rows),
     rolling |-> RollingMean(DailyComplaints(rows)),
     category_counts |-> CategoryCounts(rows),
     municipality_stats |-> MunicipalityStats(rows)]

NoMetrics == <<>>

\* ------------------------------------------------------------------ chat
Context(dr, rows) ==
    [period |-> <<dr[1], dr[2]>>,
     total |-> Len(rows),
     categories |-> UniqueSeq(Column(rows, "category")),
     municipalities |-> UniqueSeq(Column(rows, "municipality")),
     avg_severity |-> AvgSeverity(rows),
     complaints |-> rows]

\* the f-string without {prompt}
ChatRequestDropsQuestion(dr, rows, question) ==
    [model |-> "gpt-3.5-turbo", context |-> Context(dr, rows), question |-> ""]

ChatRequest(dr, rows, question) ==
    [model |-> "gpt-3.5-turbo", context |-> Context(dr, rows), question |-> question]

Message(role, content) == [role |-> role, content |-> content]

\* what the API does with one call: a completion, an exception out of
\* create(), or a response without a usable choices[0]
ApiOutcomes ==
    { [kind |-> "ok", text |-> t] : t \in Responses }
    \cup { [kind |-> "error", text |-> ""], [kind |-> "malformed", text |-> ""] }

NoPrompt == ""

\* the history replaced by the new question
AddUserMessageResets(history, question) == <<Message("user", question)>>

\* st.session_state.messages.append({"role": "user", ...})
AddUserMessage(history, question) == Append(history, Message("user", question))

\* a failed call answered with a fallback assistant message
RespondWithFallback(history, api) ==
    IF api.kind = "ok" THEN Append(history, Message("assistant", api.text))
    ELSE Append(history, Message("assistant", "error"))

\* the history after the API call: the assistant message is appended only
\* when create() returned and choices[0].message.content was read
Respond(history, api) ==
    IF api.kind = "ok" THEN Append(history, Message("assistant", api.text))
    ELSE history

\* ---------------------------------------------------------------- caches
\* load_data without @st.cache_data
CacheHitNever(entry) == FALSE

\* st.cache_data / st.cache_resource: a stored entry is served, never dropped
CacheHit(entry) == entry # <<>>

ClientHit(created) == created

\* ----------------------------------------------------------------- state
VARIABLES
    disk,            \* sample_data.csv: its rows, or Missing
    cache,           \* st.cache_data entry of load_data(): <<>> or the table
    client,          \* st.cache_resource entry of init_openai() exists
    reads,           \* completed pd.read_csv calls in this process
    clients,         \* OpenAI(...) constructions in this process
    date_range,      \* widget state: <<>> (never rendered), <<d>> or <<d1, d2>>
    catAll,          \* checkbox "Select All Categories"
    catSel,          \* multiselect "Select Categories"
    munAll,          \* checkbox "Select All Municipalities"
    munSel,          \* multiselect "Select Municipalities"
    messages,        \* st.session_state.messages
    pc,              \* where the last script run ended
    df,              \* the last run's locals
    categories,
    municipalities,
    filtered_df,
    metrics,
    prompt,
    request,         \* <<>> or <<the request passed to create()>>
    api_calls,       \* create() calls made by the last run
    api_reply,       \* what the API did with the last run's call
    hit,             \* the last run's load_data() was answered by the cache
    shown            \* <<>> or <<assistant text displayed by the last run>>

vars == <<disk, cache, client, reads, clients, date_range, catAll,
          catSel, munAll, munSel, messages, pc, df, categories, municipalities,
          filtered_df, metrics, prompt, request, api_calls, api_reply, hit,
          shown>>

process == <<cache, client, reads, clients>>
widgets == <<date_range, catAll, catSel, munAll, munSel>>
locals == <<pc, df, categories, municipalities, filtered_df, metrics, prompt,
            request, api_calls, api_reply, hit, shown>>

NoReply == [kind |-> "none", text |-> ""]

InitWith(files) ==
    /\ disk \in files
    /\ cache = <<>>
    /\ client = FALSE
    /\ reads = 0
    /\ clients = 0
    /\ date_range = <<>>
    /\ catAll = TRUE
    /\ catSel = {}
    /\ munAll = TRUE
    /\ munSel = {}
    /\ messages = <<>>
    /\ pc = "start"
    /\ df = <<>>
    /\ categories = {}
    /\ municipalities = {}
    /\ filtered_df = <<>>
    /\ metrics = NoMetrics
    /\ prompt = NoPrompt
    /\ request = <<>>
    /\ api_calls = 0
    /\ api_reply = NoReply
    /\ hit = FALSE
    /\ shown = <<>>

Init == InitWith(SessionFiles \cup {Missing})

InitPipeline == InitWith(Files)

\* --------------------------------------------------------- one script run
\* app.py from line 1 to the end (or to the statement that raises), run with
\* the widget values dr, cAll, cSel, mAll, mSel, the session history msgs,
\* the chat input q and, when the API is called, its outcome api
ScriptRun(dr, cAll, cSel, mAll, mSel, msgs, q, api) ==
    LET cached == CacheHit(cache)
    IN
    IF ~cached /\ disk = Missing
    THEN \* line 95: pd.read_csv raises FileNotFoundError, nothing catches it
         /\ pc' = "load_data"
         /\ UNCHANGED process
         /\ date_range' = dr /\ catAll' = cAll /\ catSel' = cSel
         /\ munAll' = mAll /\ munSel' = mSel
         /\ messages' = msgs
         /\ df' = <<>> /\ categories' = {} /\ municipalities' = {}
         /\ filtered_df' = <<>> /\ metrics' = NoMetrics /\ prompt' = NoPrompt
         /\ request' = <<>> /\ api_calls' = 0 /\ api_reply' = NoReply
         /\ shown' = <<>> /\ hit' = FALSE
    ELSE
    LET d     == IF cached THEN cache ELSE ReadCsv(disk)
        range == DateInput(d, dr)
        cats  == Accepted(cAll, all_categories(d), cSel)
        muns  == Accepted(mAll, all_municipalities(d), mSel)
    IN
    /\ cache' = d
    /\ reads' = IF cached THEN reads ELSE reads + 1
    /\ client' = TRUE
    /\ clients' = IF ClientHit(client) THEN clients ELSE clients + 1
    /\ df' = d
    /\ hit' = cached
    /\ date_range' = range
    /\ catAll' = cAll
    /\ munAll' = mAll
    /\ categories' = cats
    /\ municipalities' = muns
    /\ IF Len(range) < 2
       THEN \* line 142: date_range[1] raises IndexError
            /\ pc' = "mask"
            /\ catSel' = cSel /\ munSel' = mSel
            /\ messages' = msgs
            /\ filtered_df' = <<>> /\ metrics' = NoMetrics /\ prompt' = NoPrompt
            /\ request' = <<>> /\ api_calls' = 0 /\ api_reply' = NoReply
            /\ shown' = <<>>
       ELSE
       LET f == Filter(d, range, cats, muns)
       IN
       /\ filtered_df' = f
       /\ metrics' = Metrics(f)
       /\ prompt' = q
       /\ IF q = NoPrompt
          THEN /\ pc' = "done"
               /\ messages' = msgs
               /\ request' = <<>> /\ api_calls' = 0 /\ api_reply' = NoReply
               /\ shown' = <<>>
          ELSE /\ request' = <<ChatRequest(range, f, q)>>
               /\ api_calls' = 1
               /\ api_reply' = api
               /\ messages' = Respond(AddUserMessage(msgs, q), api)
               /\ shown' = IF api.kind = "ok" THEN <<api.text>> ELSE <<>>
               /\ pc' = CASE api.kind = "ok" -> "done"
                           [] api.kind = "error" -> "create"
                           [] OTHER -> "choices"
       \* a multiselect that a completed run did not render loses its state
       /\ catSel' = IF cAll /\ pc' = "done" THEN {} ELSE cSel
       /\ munSel' = IF mAll /\ pc' = "done" THEN {} ELSE mSel

\* the last run executed the sidebar (lines 106-137)
SidebarRendered == pc \in {"mask", "done", "create", "choices"}

\* the last run executed st.chat_input (line 423)
ChatRendered == pc \in {"done", "create", "choices"}

RECURSIVE CountRole(_, _)
CountRole(history, role) ==
    IF history = <<>> THEN 0
    ELSE (IF Head(history).role = role THEN 1 ELSE 0) + CountRole(Tail(history), role)

\* --------------------------------------------------------------- actions
\* a browser connects or reloads the page: fresh session state, first run
NewSession ==
    /\ ScriptRun(<<>>, TRUE, {}, TRUE, {}, <<>>, NoPrompt, NoReply)
    /\ UNCHANGED disk

\* the user asks for a rerun without touching a widget
Rerun ==
    /\ pc # "start"
    /\ ScriptRun(date_range, catAll, catSel, munAll, munSel, messages, NoPrompt, NoReply)
    /\ UNCHANGED disk

SetDateRange ==
    /\ SidebarRendered
    /\ \E dr \in DateChoices(cache) :
          /\ dr # date_range
          /\ ScriptRun(dr, catAll, catSel, munAll, munSel, messages, NoPrompt, NoReply)
    /\ UNCHANGED disk

ToggleAllCategories ==
    /\ SidebarRendered
    /\ ScriptRun(date_range, ~catAll, catSel, munAll, munSel, messages, NoPrompt, NoReply)
    /\ UNCHANGED disk

SelectCategories ==
    /\ SidebarRendered
    /\ ~catAll
    /\ \E sel \in SUBSET all_categories(cache) :
          /\ sel # catSel
          /\ ScriptRun(date_range, catAll, sel, munAll, munSel, messages, NoPrompt, NoReply)
    /\ UNCHANGED disk

ToggleAllMunicipalities ==
    /\ SidebarRendered
    /\ ScriptRun(date_range, catAll, catSel, ~munAll, munSel, messages, NoPrompt, NoReply)
    /\ UNCHANGED disk

SelectMunicipalities ==
    /\ SidebarRendered
    /\ ~munAll
    /\ \E sel \in SUBSET all_municipalities(cache) :
          /\ sel # munSel
          /\ ScriptRun(date_range, catAll, catSel, munAll, sel, messages, NoPrompt, NoReply)
    /\ UNCHANGED disk

ChatSubmit ==
    /\ ChatRendered
    /\ CountRole(messages, "user") < MaxSubmissions
    /\ \E q \in Questions, api \in ApiOutcomes :
          ScriptRun(date_range, catAll, catSel, munAll, munSel, messages, q, api)
    /\ UNCHANGED disk

\* the environment removes or (re)writes sample_data.csv
FileRemoved ==
    /\ disk # Missing
    /\ disk' = Missing
    /\ UNCHANGED <<process, widgets, messages, locals>>

FileWritten ==
    /\ disk = Missing
    /\ disk' \in SessionFiles
    /\ UNCHANGED <<process, widgets, messages, locals>>

Next ==
    \/ NewSession
    \/ Rerun
    \/ SetDateRange
    \/ ToggleAllCategories
    \/ SelectCategories
    \/ ToggleAllMunicipalities
    \/ SelectMunicipalities
    \/ ChatSubmit
    \/ FileRemoved
    \/ FileWritten

Spec == Init /\ [][Next]_vars

\* the filter and aggregation pipeline alone, over every file of Files
NextPipeline ==
    \/ NewSession
    \/ SetDateRange
    \/ ToggleAllCategories
    \/ SelectCategories
    \/ ToggleAllMunicipalities
    \/ SelectMunicipalities

SpecPipeline == InitPipeline /\ [][NextPipeline]_vars

\* ========================================================== properties
IsPrefix(s, t) == Len(s) <= Len(t) /\ SubSeq(t, 1, Len(s)) = s

Severities(rows) == Range(Column(rows, "severity_score"))

\* row r passes the filters of the last run
Selected(r) ==
    /\ date_range[1] <= DateOf(r.date)
    /\ DateOf(r.date) <= date_range[2]
    /\ r.category \in categories
    /\ r.municipality \in municipalities

\* C1: after a run that applied the filters, the filtered set holds exactly
\* the loaded rows whose calendar date lies in the closed range and whose
\* category and municipality are accepted: each such row once, unaltered,
\* and nothing else.
FilteredIsExactlyTheSelectedRows ==
    pc = "done" =>
        /\ \A r \in Range(df) : r \in Range(filtered_df) <=> Selected(r)
        /\ Range(filtered_df) \subseteq Range(df)
        /\ Cardinality(Range(filtered_df)) = Len(filtered_df)

\* a row of the last day of the range, with a time of day, is kept while
\* another row is filtered out
WitnessFilterBoundary ==
    /\ pc = "done"
    /\ \E r \in Range(filtered_df) :
          DateOf(r.date) = date_range[2] /\ r.date % TicksPerDay # 0
    /\ Range(df) \ Range(filtered_df) # {}

WithinMinMax(v, rows) ==
    /\ 10 * v >= SetMin(Severities(rows))
    /\ 10 * v <= SetMax(Severities(rows))

\* v hundredths is the mean <<sum, n>> rounded to two decimals
RoundedFrom(v, mean) ==
    /\ 10 * v * mean[2] >= mean[1] - 5 * mean[2]
    /\ 10 * v * mean[2] <= mean[1] + 5 * mean[2]

EmptyFilterAggregatesDefined ==
    /\ (pc = "done" /\ filtered_df = <<>>) =>
          /\ metrics.total = 0
          /\ metrics.avg_severity = <<>>
          /\ metrics.mean_severity = <<>>
          /\ metrics.high_severity = 0
          /\ metrics.municipalities_count = 0
          /\ metrics.daily_complaints = <<>>
          /\ metrics.rolling = <<>>
          /\ DOMAIN metrics.category_counts = {}
          /\ DOMAIN metrics.municipality_stats = {}
    /\ ( /\ pc \notin {"start", "load_data"}
         /\ Len(date_range) = 2
         /\ prompt = NoPrompt
         /\ (categories = {} \/ municipalities = {}) )
       => (pc = "done" /\ filtered_df = <<>>)

\* the category toggle unset, nothing selected, the run complete
WitnessEmptyFilter ==
    /\ pc = "done"
    /\ ~catAll /\ catSel = {}
    /\ munAll
    /\ filtered_df = <<>>
    /\ metrics.total = 0

\* C5 as stated: a script run never ends in load_data raising; with the file
\* missing it goes on with an empty table.
MissingFileRecovered == pc # "load_data"

\* C6: a set toggle accepts every observed value whatever the multiselect
\* holds; an unset toggle accepts exactly the selection, a subset of the
\* observed values; an unset toggle with nothing selected empties the
\* filtered set; and the selection is empty when a toggle is unset after a
\* completed run.
SelectAllOverridesSelection ==
    /\ [](pc \in {"mask", "done", "create", "choices"} =>
            /\ catAll => categories = all_categories(df)
            /\ ~catAll => (categories = catSel /\ catSel \subseteq all_categories(df))
            /\ munAll => municipalities = all_municipalities(df)
            /\ ~munAll => ( /\ municipalities = munSel
                            /\ munSel \subseteq all_municipalities(df) )
            /\ ( /\ pc = "done"
                 /\ \/ ~catAll /\ catSel = {}
                    \/ ~munAll /\ munSel = {} )
               => filtered_df = <<>>)
    /\ [][ /\ (pc = "done" /\ catAll /\ ~catAll') => catSel' = {}
           /\ (pc = "done" /\ munAll /\ ~munAll') => munSel' = {} ]_vars

\* a set category toggle over a multiselect that still holds a selection,
\* next to an unset municipality toggle with a proper selection
WitnessToggleOverrides ==
    /\ pc = "mask"
    /\ catAll /\ catSel # {} /\ catSel # all_categories(df)
    /\ categories = all_categories(df)
    /\ ~munAll /\ munSel # {} /\ municipalities = munSel
    /\ municipalities # all_municipalities(df)

\* C7: the file is read at most once per process, by the first run that
\* finds it; every later run works on that cached table, which no step
\* replaces or drops, whatever happens to the file; the API client is
\* created at most once.
LoadedOncePerProcess ==
    /\ [](/\ reads <= 1
          /\ clients <= 1
          /\ (cache # <<>>) <=> (reads = 1)
          /\ client <=> (clients = 1)
          /\ pc \notin {"start", "load_data"} => (df = cache /\ cache # <<>>))
    /\ [][ /\ cache # <<>> => (cache' = cache /\ reads' = reads)
           /\ client => (client' /\ clients' = clients) ]_vars

\* a chat run served from the cache and completed, the file on disk holding
\* other rows than the cached table
WitnessServedFromCache ==
    /\ pc = "done"
    /\ hit
    /\ prompt # NoPrompt
    /\ disk # Missing
    /\ ReadCsv(disk) # cache
    /\ reads = 1

\* C8: the request of a chat submission carries the question as typed and
\* the date range and filtered rows of the same run; the text the API
\* returns is shown and appended to the history as returned.
RequestFromCurrentRun ==
    prompt # NoPrompt =>
        /\ request # <<>>
        /\ request[1].question = prompt
        /\ request[1].context.period = date_range
        /\ request[1].context.complaints = filtered_df
        /\ request[1].context.total = Len(filtered_df)
        /\ \A r \in Range(df) :
              r \in Range(request[1].context.complaints) <=> Selected(r)
        /\ api_reply.kind = "ok" =>
              /\ shown = <<api_reply.text>>
              /\ messages[Len(messages)] = Message("assistant", api_reply.text)

\* a second submission with another question, after the filters were
\* narrowed, answered by the API
WitnessSecondSubmission ==
    /\ prompt # NoPrompt
    /\ api_reply.kind = "ok"
    /\ CountRole(messages, "user") = 2
    /\ messages[1].content # prompt
    /\ filtered_df # <<>>
    /\ filtered_df # df
    /\ request[1].context.complaints = filtered_df

\* C9: a chat submission calls the API once; when the call fails the run
\* ends there: nothing is shown for the assistant and the history ends with
\* the user's question.
FailedCallNotRecovered ==
    prompt # NoPrompt =>
        /\ api_calls = 1
        /\ api_reply.kind # "ok" =>
              /\ pc \in {"create", "choices"}
              /\ shown = <<>>
              /\ messages[Len(messages)] = Message("user", prompt)
        /\ CountRole(messages, "assistant") <= CountRole(messages, "user")

\* a submission whose API call raised
WitnessFailedCall ==
    /\ prompt # NoPrompt
    /\ api_reply.kind = "error"
    /\ pc = "create"
    /\ api_calls = 1
    /\ messages # <<>>

\* C10: within a session the history only grows at its end; a submission
\* appends the question, then the answer when the API gave one; any other
\* run leaves it alone; every assistant message follows a user message, so
\* there are never more assistant than user messages.
HistoryAppendOnly ==
    /\ [](/\ \A i \in 1..Len(messages) :
                messages[i].role = "assistant" =>
                    (i > 1 /\ messages[i - 1].role = "user")
          /\ CountRole(messages, "assistant") <= CountRole(messages, "user"))
    /\ [][ \/ NewSession
           \/ /\ IsPrefix(messages, messages')
              /\ IF disk' = disk /\ prompt' # NoPrompt
                 THEN /\ Len(messages') > Len(messages)
                      /\ messages'[Len(messages) + 1] = Message("user", prompt')
                      /\ IF api_reply'.kind = "ok"
                         THEN messages' = Append(Append(messages, Message("user", prompt')),
                                                 Message("assistant", api_reply'.text))
                         ELSE messages' = Append(messages, Message("user", prompt'))
                 ELSE messages' = messages ]_vars

\* a failed submission followed by an answered one
WitnessHistoryAfterFailure ==
    /\ Len(messages) = 3
    /\ messages[1].role = "user"
    /\ messages[2].role = "user"
    /\ messages[3].role = "assistant"
    /\ messages[1].content # messages[2].content

====
